---- MODULE Spec2Model ----
(***************************************************************************)
(* Model of interferometer/simulators/light_sersic_exp.py.                 *)
(*                                                                         *)
(* The script is one module body: a straight line of statements, each a    *)
(* binding of a name or a call into the autogalaxy library.  The model     *)
(* has one action per statement (named after the line it starts on), the   *)
(* interpreter's handling of an uncaught exception, and the launch of a    *)
(* further run of the script on the same working directory.                *)
(*                                                                         *)
(* Values are records tagged with a `kind`; floats are kept in tenths      *)
(* (0.2 is 2, 300.0 is 3000); a path is the sequence of its components.    *)
(* What the library computes is kept as a term over its arguments.  The    *)
(* library's own code is not part of the repository: the contracts of      *)
(* TransformerDFT, NoiseMapFrom, FitsData and FirstBlocked are those the    *)
(* specification gives for it.                                             *)
(***************************************************************************)
EXTENDS Integers, Sequences, FiniteSets, TLC

VARIABLES
    pc,         \* the statement control is at ("end": past the last one)
    status,     \* "running", "done" (ended without error) or "failed"
    error,      \* the uncaught exception that ended the run, or "none"
    env,        \* the module's global names and the values bound to them
    fs,         \* the files of the working directory: path -> content
    runs,       \* how many times the script has been launched
    binds,      \* history: how often this run bound each name
    written,    \* history: the files this run wrote
    steps,      \* history: the statements this run completed, in order
    shown,      \* history: the figures this run put on the screen
    simulated,  \* history: how many observations this run simulated
    before      \* history: the files as they were when this run started

vars == <<pc, status, error, env, fs, runs, binds, written, steps, shown,
          simulated, before>>

\* ------------------------------------------------------------ bounds

\* Runs of the script on the same working directory.
MaxRuns == 2
\* Rows of the baseline array in the input wavelength file.
MaxBaselines == 2
\* Distinct baseline values.
MaxWave == 2
\* Distinct noise realisations the simulator can draw.
MaxNoise == 2

\* ------------------------------------------------------------ values

Unbound == [kind |-> "unbound"]

Str(s) == [kind |-> "str", v |-> s]

PathV(p) == [kind |-> "path", v |-> p]

\* os.path.join on component sequences.
path_join(a, b) == a \o b

dataset_type == "interferometer"

dataset_name == "light_sersic_exp"

\* The output path without its "dataset" root.
dataset_path_ofNoRoot(e) == path_join(<<e["dataset_type"].v>>, <<e["dataset_name"].v>>)

\* line 34: path.join("dataset", dataset_type, dataset_name)
dataset_path_of(e) ==
    path_join(<<"dataset">>, path_join(<<e["dataset_type"].v>>, <<e["dataset_name"].v>>))

\* line 51: path.join("dataset", dataset_type, "uv_wavelengths")
uv_wavelengths_path_of(e) ==
    path_join(<<"dataset">>, path_join(<<e["dataset_type"].v>>, <<"uv_wavelengths">>))

\* line 53: path.join(uv_wavelengths_path, "sma.fits")
InputFile(e) == path_join(e["uv_wavelengths_path"].v, <<"sma.fits">>)

\* The input file as the working directory holds it before any run.
InputFilePath == <<"dataset", "interferometer", "uv_wavelengths", "sma.fits">>

Names == {"dataset_type", "dataset_name", "dataset_path", "grid_2d",
          "uv_wavelengths_path", "uv_wavelengths", "simulator", "galaxy",
          "plane", "plane_plotter", "interferometer",
          "interferometer_plotter", "mat_plot_2d"}

\* ------------------------------------------------------------ files

Arrays == UNION {[1..n -> 1..MaxWave] : n \in 0..MaxBaselines}

FitsFile(d) == [kind |-> "fits", data |-> d]

Garbage == [kind |-> "garbage"]

Exists(f, p) == p \in DOMAIN f

Write(f, p, c) == [q \in DOMAIN f \cup {p} |-> IF q = p THEN c ELSE f[q]]

\* ------------------------------------------------------------ library calls

\* line 42: ag.Grid2D.uniform(shape_native=(400, 400), pixel_scales=0.2, sub_size=1)
Grid2D_uniform ==
    [kind |-> "grid", shape_native |-> <<400, 400>>, pixel_scales |-> 2, sub_size |-> 1]

\* lines 52-54: numpy_array_1d_via_fits_from(file_path, hdu=0): the array the
\* file holds, or the exception the load raises.
numpy_array_1d_via_fits_from(f, p) ==
    IF ~Exists(f, p) THEN [kind |-> "raise", error |-> "FileNotFound"]
    ELSE IF f[p].kind # "fits" THEN [kind |-> "raise", error |-> "FormatError"]
    ELSE [kind |-> "array", data |-> f[p].data]

\* The simulator configured without the last baseline.
MakeSimulatorDropsLast(e) ==
    [kind |-> "simulator",
     uv_wavelengths |-> [i \in 1..(Len(e["uv_wavelengths"].data) - 1) |->
                            e["uv_wavelengths"].data[i]],
     exposure_time |-> 3000,
     noise_sigma |-> 10000,
     transformer_class |-> "TransformerDFT"]

\* lines 60-65: the simulator is configured with the array bound to uv_wavelengths.
MakeSimulator(e) ==
    [kind |-> "simulator",
     uv_wavelengths |-> e["uv_wavelengths"].data,
     exposure_time |-> 3000,
     noise_sigma |-> 10000,
     transformer_class |-> "TransformerDFT"]

\* lines 84, 91: ag.convert.ell_comps_from, kept as a term over its arguments.
ell_comps_from(axis_ratio, angle) ==
    [kind |-> "ell_comps", axis_ratio |-> axis_ratio, angle |-> angle]

\* lines 80-95
MakeGalaxy ==
    [kind |-> "galaxy",
     redshift |-> 5,
     bulge |-> [kind |-> "Sersic", centre |-> <<0, 0>>,
                ell_comps |-> ell_comps_from(9, 450), intensity |-> 10,
                effective_radius |-> 6, sersic_index |-> 30],
     disk |-> [kind |-> "Exponential", centre |-> <<0, 0>>,
               ell_comps |-> ell_comps_from(7, 300), intensity |-> 5,
               effective_radius |-> 16]]

\* line 100: ag.Plane(galaxies=[galaxy])
MakePlane(e) == [kind |-> "plane", galaxies |-> <<e["galaxy"]>>]

\* Plots go to the screen unless a plotter is given a mat_plot_2d.
Show == [kind |-> "show"]

\* line 139: aplt.MatPlot2D(output=aplt.Output(path=dataset_path, format="png"))
MakeMatPlot2D(e) ==
    [kind |-> "mat_plot_2d", path |-> e["dataset_path"].v, format |-> "png"]

\* line 105: aplt.PlanePlotter(plane=plane, grid=grid_2d)
MakePlanePlotter(e) ==
    [kind |-> "plotter", of |-> e["plane"], grid |-> e["grid_2d"], output |-> Show]

\* line 148: aplt.PlanePlotter(plane=plane, grid=grid_2d, mat_plot_2d=mat_plot_2d)
MakePlanePlotterPng(e) ==
    [kind |-> "plotter", of |-> e["plane"], grid |-> e["grid_2d"],
     output |-> e["mat_plot_2d"]]

\* line 117: aplt.InterferometerPlotter(interferometer=interferometer)
MakeInterferometerPlotter(e) ==
    [kind |-> "plotter", of |-> e["interferometer"], grid |-> Unbound, output |-> Show]

\* lines 141-143
MakeInterferometerPlotterPng(e) ==
    [kind |-> "plotter", of |-> e["interferometer"], grid |-> Unbound,
     output |-> e["mat_plot_2d"]]

\* The image of the plane on the grid, as a term.
image_2d_from(plane, grid) == [kind |-> "image", plane |-> plane, grid |-> grid]

\* The transform of the image at the baselines: one visibility per baseline,
\* with the noise drawn for this simulation added.
TransformerDFT(image, uv, noise) ==
    [i \in 1..Len(uv) |-> [uv |-> uv[i], noise |-> noise]]

\* The noise map: noise_sigma at every visibility.
NoiseMapFrom(uv, noise_sigma) == [i \in 1..Len(uv) |-> noise_sigma]

\* line 112: simulator.via_plane_from(plane=plane, grid=grid_2d)
via_plane_from(e, noise) ==
    LET sim == e["simulator"]
        image == image_2d_from(e["plane"], e["grid_2d"])
    IN  [kind |-> "interferometer",
         image |-> image,
         visibilities |-> TransformerDFT(image, sim.uv_wavelengths, noise),
         noise_map |-> NoiseMapFrom(sim.uv_wavelengths, sim.noise_sigma),
         uv_wavelengths |-> sim.uv_wavelengths]

\* What a .fits file written from an array holds.
FitsData(d) == FitsFile(d)

\* The flag left out of the call.
overwriteFalse == FALSE

\* line 131: overwrite=True
overwrite == TRUE

\* The noise map passed where the baselines belong.
FitsTargetsUvFromNoiseMap(e) ==
    <<[path |-> path_join(e["dataset_path"].v, <<"visibilities.fits">>),
       data |-> e["interferometer"].visibilities],
      [path |-> path_join(e["dataset_path"].v, <<"noise_map.fits">>),
       data |-> e["interferometer"].noise_map],
      [path |-> path_join(e["dataset_path"].v, <<"uv_wavelengths.fits">>),
       data |-> e["interferometer"].noise_map]>>

\* lines 127-132: the three files output_to_fits is asked to write, in the
\* order of the call's arguments.
FitsTargets(e) ==
    <<[path |-> path_join(e["dataset_path"].v, <<"visibilities.fits">>),
       data |-> e["interferometer"].visibilities],
      [path |-> path_join(e["dataset_path"].v, <<"noise_map.fits">>),
       data |-> e["interferometer"].noise_map],
      [path |-> path_join(e["dataset_path"].v, <<"uv_wavelengths.fits">>),
       data |-> e["interferometer"].uv_wavelengths]>>

\* line 159: path.join(dataset_path, "plane.json")
PlaneJsonPath(e) == path_join(e["dataset_path"].v, <<"plane.json">>)

\* plane.output_to_json: the profiles and parameters of the plane.
PlaneJson(plane) == [kind |-> "json", plane |-> plane]

\* The name of the file a figure is written to with format="png".
PngName(fig) ==
    CASE fig = "subplot_interferometer" -> "subplot_interferometer.png"
      [] fig = "subplot_dirty_images" -> "subplot_dirty_images.png"
      [] fig = "visibilities" -> "visibilities.png"
      [] fig = "subplot_plane" -> "subplot_plane.png"

\* The file a plotter with a mat_plot_2d writes a figure to.
PngPath(plotter, fig) == path_join(plotter.output.path, <<PngName(fig)>>)

Png(plotter, fig) == [kind |-> "png", fig |-> fig, of |-> plotter.of]

\* ------------------------------------------------------------ control

\* The statements of the module body, each named after the line it starts on.
Order ==
    <<"L27", "L28", "L34", "L42", "L51", "L52", "L60", "L80", "L100", "L105",
      "L106", "L112", "L117", "L118", "L119", "L120", "L127", "L139", "L141",
      "L144", "L145", "L146", "L148", "L149", "L159">>

Statements == {Order[i] : i \in DOMAIN Order}

Index(order, s) == CHOOSE i \in DOMAIN order : order[i] = s

Succ(order, s) ==
    IF Index(order, s) < Len(order) THEN order[Index(order, s) + 1] ELSE "end"

\* A retry: the simulation is followed by the simulator's configuration again.
NextPcRetry(s) == IF s = "L112" THEN "L60" ELSE Succ(Order, s)

\* The scene description written before the binary files and the plots.
NextPcJsonFirst(s) ==
    Succ(<<"L27", "L28", "L34", "L42", "L51", "L52", "L60", "L80", "L100",
           "L105", "L106", "L112", "L117", "L118", "L119", "L120", "L159",
           "L127", "L139", "L141", "L144", "L145", "L146", "L148", "L149">>, s)

\* The statement control reaches after statement s: the next one of the module
\* body (there is no branch, loop or call back into the script).
NextPc(s) == Succ(Order, s)

\* Statement s has completed.
Advance(s) ==
    /\ pc' = NextPc(s)
    /\ steps' = Append(steps, s)
    /\ status' = IF NextPc(s) = "end" THEN "done" ELSE "running"
    /\ error' = error

\* An exception swallowed: the script goes on with the next statement.
RaiseSwallowed(s, e) ==
    /\ pc' = NextPc(s)
    /\ steps' = Append(steps, s)
    /\ status' = IF NextPc(s) = "end" THEN "done" ELSE "running"
    /\ error' = e

\* Statement s raised e: no statement of the script catches it, the
\* interpreter ends the run there.
Raise(s, e) ==
    /\ pc' = s
    /\ steps' = steps
    /\ status' = "failed"
    /\ error' = e

At(s) == pc = s /\ status = "running"

\* Line 148 binding `plane` where it binds `plane_plotter`.
TargetRebindsPlane(s) ==
    CASE s = "L27" -> "dataset_type"
      [] s = "L28" -> "dataset_name"
      [] s = "L34" -> "dataset_path"
      [] s = "L42" -> "grid_2d"
      [] s = "L51" -> "uv_wavelengths_path"
      [] s = "L52" -> "uv_wavelengths"
      [] s = "L60" -> "simulator"
      [] s = "L80" -> "galaxy"
      [] s = "L100" -> "plane"
      [] s = "L105" -> "plane_plotter"
      [] s = "L112" -> "interferometer"
      [] s = "L117" -> "interferometer_plotter"
      [] s = "L139" -> "mat_plot_2d"
      [] s = "L141" -> "interferometer_plotter"
      [] s = "L148" -> "plane"

\* The name statement s binds.
Target(s) ==
    CASE s = "L27" -> "dataset_type"
      [] s = "L28" -> "dataset_name"
      [] s = "L34" -> "dataset_path"
      [] s = "L42" -> "grid_2d"
      [] s = "L51" -> "uv_wavelengths_path"
      [] s = "L52" -> "uv_wavelengths"
      [] s = "L60" -> "simulator"
      [] s = "L80" -> "galaxy"
      [] s = "L100" -> "plane"
      [] s = "L105" -> "plane_plotter"
      [] s = "L112" -> "interferometer"
      [] s = "L117" -> "interferometer_plotter"
      [] s = "L139" -> "mat_plot_2d"
      [] s = "L141" -> "interferometer_plotter"
      [] s = "L148" -> "plane_plotter"

\* An assignment statement: binds its target to v and touches nothing else.
Assign(s, v) ==
    /\ At(s)
    /\ env' = [env EXCEPT ![Target(s)] = v]
    /\ binds' = [binds EXCEPT ![Target(s)] = @ + 1]
    /\ Advance(s)
    /\ UNCHANGED <<fs, written, shown, simulated, runs, before>>

\* A call of a plotter's method for figure fig: the figure goes to the screen,
\* or to a .png file under the plotter's output path; the call may raise.
Plot(s, plotter, fig) ==
    /\ At(s)
    /\ \/ /\ plotter.output.kind = "show"
          /\ shown' = Append(shown, [fig |-> fig, of |-> plotter.of])
          /\ UNCHANGED <<fs, written>>
          /\ Advance(s)
       \/ /\ plotter.output.kind = "mat_plot_2d"
          /\ fs' = Write(fs, PngPath(plotter, fig), Png(plotter, fig))
          /\ written' = written \cup {PngPath(plotter, fig)}
          /\ shown' = shown
          /\ Advance(s)
       \/ /\ Raise(s, IF plotter.output.kind = "show" THEN "PlotError"
                      ELSE "DiskWriteError")
          /\ UNCHANGED <<fs, written, shown>>
    /\ UNCHANGED <<env, binds, simulated, runs, before>>

\* ------------------------------------------------------------ statements

L27 == Assign("L27", Str(dataset_type))

L28 == Assign("L28", Str(dataset_name))

L34 == Assign("L34", PathV(dataset_path_of(env)))

L42 == Assign("L42", Grid2D_uniform)

L51 == Assign("L51", PathV(uv_wavelengths_path_of(env)))

\* lines 52-54: the load of the baseline wavelengths; a missing or malformed
\* file raises.
L52 ==
    /\ At("L52")
    /\ LET r == numpy_array_1d_via_fits_from(fs, InputFile(env))
       IN  \/ /\ r.kind = "array"
              /\ Assign("L52", r)
           \/ /\ r.kind = "raise"
              /\ Raise("L52", r.error)
              /\ UNCHANGED <<env, binds, fs, written, shown, simulated, runs, before>>

L60 == Assign("L60", MakeSimulator(env))

L80 == Assign("L80", MakeGalaxy)

L100 == Assign("L100", MakePlane(env))

L105 == Assign("L105", MakePlanePlotter(env))

L106 == Plot("L106", env["plane_plotter"], "image")

\* line 112: the simulation, with the noise it draws.
L112 ==
    /\ At("L112")
    /\ \E noise \in 1..MaxNoise :
          env' = [env EXCEPT ![Target("L112")] = via_plane_from(env, noise)]
    /\ binds' = [binds EXCEPT ![Target("L112")] = @ + 1]
    /\ simulated' = simulated + 1
    /\ Advance("L112")
    /\ UNCHANGED <<fs, written, shown, runs, before>>

L117 == Assign("L117", MakeInterferometerPlotter(env))

L118 == Plot("L118", env["interferometer_plotter"], "dirty_image")

L119 == Plot("L119", env["interferometer_plotter"], "subplot_interferometer")

L120 == Plot("L120", env["interferometer_plotter"], "subplot_dirty_images")

RECURSIVE WriteAll(_, _, _)
WriteAll(f, t, n) ==
    IF n = 0 THEN f
    ELSE Write(WriteAll(f, t, n - 1), t[n].path, FitsData(t[n].data))

\* The first file of t that exists and may not be replaced (Len(t) + 1: none).
FirstBlocked(f, t) ==
    LET b == {i \in DOMAIN t : ~overwrite /\ Exists(f, t[i].path)}
    IN  IF b = {} THEN Len(t) + 1 ELSE CHOOSE i \in b : \A j \in b : i <= j

\* lines 127-132: interferometer.output_to_fits(..., overwrite=True) writes
\* its files one after the other; the disk lets k of them through.
L127 ==
    /\ At("L127")
    /\ \E k \in 0..3 :
          LET t == FitsTargets(env)
              fb == FirstBlocked(fs, t)
              n == IF fb - 1 <= k THEN fb - 1 ELSE k
          IN  /\ fs' = WriteAll(fs, t, n)
              /\ written' = written \cup {t[i].path : i \in 1..n}
              /\ IF n = Len(t) THEN Advance("L127")
                 ELSE Raise("L127", IF fb <= Len(t) /\ n = fb - 1
                                    THEN "AlreadyExists" ELSE "DiskWriteError")
    /\ UNCHANGED <<env, binds, shown, simulated, runs, before>>

L139 == Assign("L139", MakeMatPlot2D(env))

L141 == Assign("L141", MakeInterferometerPlotterPng(env))

L144 == Plot("L144", env["interferometer_plotter"], "subplot_interferometer")

L145 == Plot("L145", env["interferometer_plotter"], "subplot_dirty_images")

L146 == Plot("L146", env["interferometer_plotter"], "visibilities")

L148 == Assign("L148", MakePlanePlotterPng(env))

L149 == Plot("L149", env["plane_plotter"], "subplot_plane")

\* line 159: plane.output_to_json(file_path=path.join(dataset_path, "plane.json"))
L159 ==
    /\ At("L159")
    /\ \/ /\ fs' = Write(fs, PlaneJsonPath(env), PlaneJson(env["plane"]))
          /\ written' = written \cup {PlaneJsonPath(env)}
          /\ Advance("L159")
       \/ /\ Raise("L159", "DiskWriteError")
          /\ UNCHANGED <<fs, written>>
    /\ UNCHANGED <<env, binds, shown, simulated, runs, before>>

\* The script is run again in the same working directory: a fresh process,
\* the files as the earlier runs left them.
Launch ==
    /\ status \in {"done", "failed"}
    /\ runs < MaxRuns
    /\ runs' = runs + 1
    /\ pc' = Order[1]
    /\ status' = "running"
    /\ error' = "none"
    /\ env' = [n \in Names |-> Unbound]
    /\ binds' = [n \in Names |-> 0]
    /\ written' = {}
    /\ steps' = <<>>
    /\ shown' = <<>>
    /\ simulated' = 0
    /\ fs' = fs
    /\ before' = fs

\* ------------------------------------------------------------ specification

OutputDir == <<"dataset", "interferometer", "light_sersic_exp">>

Stale == [kind |-> "stale"]

\* The working directory before the first run: the input file is missing,
\* malformed or holds an array; the output directory is empty or holds the
\* files of an earlier simulation.
InputChoices == {<<>>} \cup {<<Garbage>>} \cup {<<FitsFile(a)>> : a \in Arrays}

StaleFiles ==
    {path_join(OutputDir, <<f>>) :
        f \in {"visibilities.fits", "noise_map.fits", "uv_wavelengths.fits", "plane.json"}}

InitialFs ==
    {[p \in (IF i = <<>> THEN {} ELSE {InputFilePath}) \cup old |->
         IF p = InputFilePath THEN i[1] ELSE Stale] :
        i \in InputChoices, old \in {{}, StaleFiles}}

Init ==
    /\ pc = Order[1]
    /\ status = "running"
    /\ error = "none"
    /\ env = [n \in Names |-> Unbound]
    /\ binds = [n \in Names |-> 0]
    /\ fs \in InitialFs
    /\ written = {}
    /\ steps = <<>>
    /\ shown = <<>>
    /\ simulated = 0
    /\ runs = 1
    /\ before = fs

Next ==
    \/ L27 \/ L28 \/ L34 \/ L42 \/ L51 \/ L52 \/ L60 \/ L80 \/ L100 \/ L105
    \/ L106 \/ L112 \/ L117 \/ L118 \/ L119 \/ L120 \/ L127 \/ L139 \/ L141
    \/ L144 \/ L145 \/ L146 \/ L148 \/ L149 \/ L159 \/ Launch

Spec == Init /\ [][Next]_vars

\* ------------------------------------------------------------ pipeline steps

\* The pipeline step a statement belongs to: 1 Path Setup, 2 Grid
\* Construction, 3 Wavelength Loader, 4 Simulator Configuration, 5 Scene
\* Construction, 6 Rendering & Simulation, 7 Output.
StepOf(s) ==
    CASE s \in {"L27", "L28", "L34"} -> 1
      [] s = "L42" -> 2
      [] s \in {"L51", "L52"} -> 3
      [] s = "L60" -> 4
      [] s \in {"L80", "L100"} -> 5
      [] s \in {"L105", "L106", "L112", "L117", "L118", "L119", "L120"} -> 6
      [] OTHER -> 7

Completed == {steps[i] : i \in DOMAIN steps}

\* C1: in every run the seven pipeline steps execute in the fixed order Path
\* Setup, Grid Construction, Wavelength Loader, Simulator Configuration, Scene
\* Construction, Rendering & Simulation, Output: no statement executes twice
\* (no retry, no loop), the statements complete in the order of their steps,
\* the statement control is at belongs to no earlier step than a completed
\* one and is reached only when every statement of every earlier step has
\* completed, a run in progress has met no error, and a run that ends
\* without error has executed all seven steps.
C1_StrictlySequential ==
    /\ Cardinality(Completed) = Len(steps)
    /\ \A i \in 1..(Len(steps) - 1) : StepOf(steps[i]) <= StepOf(steps[i + 1])
    /\ (pc # "end" /\ steps # <<>>) => StepOf(steps[Len(steps)]) <= StepOf(pc)
    /\ \A t \in Statements \ Completed : pc # "end" /\ StepOf(pc) <= StepOf(t)
    /\ status = "running" => error = "none"
    /\ status = "done" => {StepOf(s) : s \in Completed} = 1..7

\* A second run of the script has executed all seven steps.
C1_Witness ==
    /\ status = "done"
    /\ runs = 2
    /\ Len(steps) = Len(Order)
    /\ {StepOf(steps[i]) : i \in DOMAIN steps} = 1..7

\* ------------------------------------------------------------ output files

FitsNames == {"visibilities.fits", "noise_map.fits", "uv_wavelengths.fits"}

PngNames ==
    {"subplot_interferometer.png", "subplot_dirty_images.png", "visibilities.png",
     "subplot_plane.png"}

OutputNames == FitsNames \cup PngNames \cup {"plane.json"}

\* The directory a file is in.
DirOf(p) == SubSeq(p, 1, Len(p) - 1)

\* The output files are in directory dir, and so is every file this run wrote.
OutputIn(dir) ==
    /\ \A f \in FitsNames :
          Exists(fs, path_join(dir, <<f>>)) /\ fs[path_join(dir, <<f>>)].kind = "fits"
    /\ \A f \in PngNames :
          Exists(fs, path_join(dir, <<f>>)) /\ fs[path_join(dir, <<f>>)].kind = "png"
    /\ Exists(fs, path_join(dir, <<"plane.json">>))
    /\ fs[path_join(dir, <<"plane.json">>)].kind = "json"
    /\ \A p \in written : DirOf(p) = dir

OutFile(f) == path_join(OutputDir, <<f>>)

\* The array the observation of this run holds for an output file.
ObservationData(f) ==
    CASE f = "visibilities.fits" -> env["interferometer"].visibilities
      [] f = "noise_map.fits" -> env["interferometer"].noise_map
      [] f = "uv_wavelengths.fits" -> env["interferometer"].uv_wavelengths

\* C4: with overwrite=True no run, however many earlier runs left their files
\* behind, fails because an output file already exists; and once a run has
\* completed the .fits output, each of the three files holds the array of
\* this run's observation, of the same length as the file an earlier run
\* left at that path.
C4_RerunReplaces ==
    /\ error # "AlreadyExists"
    /\ "L127" \in Completed => \A f \in FitsNames :
          /\ Exists(fs, OutFile(f))
          /\ fs[OutFile(f)] = FitsFile(ObservationData(f))
          /\ (Exists(before, OutFile(f)) /\ before[OutFile(f)].kind = "fits")
                => Len(fs[OutFile(f)].data) = Len(before[OutFile(f)].data)

\* A re-run has replaced the three files an earlier run wrote, the
\* visibilities by different ones.
C4_Witness ==
    /\ runs > 1
    /\ "L127" \in Completed
    /\ \A f \in FitsNames :
          Exists(before, OutFile(f)) /\ before[OutFile(f)].kind = "fits"
    /\ fs[OutFile("visibilities.fits")] # before[OutFile("visibilities.fits")]
    /\ Len(fs[OutFile("visibilities.fits")].data) > 0

\* ------------------------------------------------------------ failures

Later(s) == {t \in Statements : Index(Order, t) > Index(Order, s)}

\* C5: an exception is never caught: a run that raised has failed, it stays at
\* the statement that raised, and no later statement has executed; when the
\* load of the baseline wavelengths fails, nothing has been simulated and no
\* file has been written or changed.
C5_FailureEndsRun ==
    /\ error # "none" <=> status = "failed"
    /\ status = "failed" =>
          /\ pc \in Statements
          /\ pc \notin Completed
          /\ Later(pc) \cap Completed = {}
    /\ error \in {"FileNotFound", "FormatError"} =>
          /\ pc = "L52"
          /\ simulated = 0
          /\ env["interferometer"] = Unbound
          /\ written = {}
          /\ fs = before

\* The load failed on a missing input file, with output files of an earlier
\* simulation on disk.
C5_Witness ==
    /\ status = "failed"
    /\ error = "FileNotFound"
    /\ pc = "L52"
    /\ Exists(fs, OutFile("visibilities.fits"))

\* ------------------------------------------------------------ the observation

\* C6: whatever array the input file holds, the observation the simulation
\* produces has one visibility and one noise-map entry per baseline
\* wavelength loaded, and the visibilities.fits file the output step writes
\* has that same length.
C6_OnePerBaseline ==
    /\ "L112" \in Completed =>
          /\ Len(env["interferometer"].visibilities) = Len(env["uv_wavelengths"].data)
          /\ Len(env["interferometer"].noise_map) = Len(env["uv_wavelengths"].data)
          /\ Len(env["uv_wavelengths"].data) = Len(fs[InputFilePath].data)
    /\ "L127" \in Completed =>
          Len(fs[OutFile("visibilities.fits")].data) = Len(env["uv_wavelengths"].data)

\* The visibilities of an input of more than one baseline have been written.
C6_Witness ==
    /\ "L127" \in Completed
    /\ Len(env["uv_wavelengths"].data) >= 2
    /\ Len(fs[OutFile("visibilities.fits")].data) >= 2

\* The files this run wrote that are plots.
PlotsWritten == {p \in written : fs[p].kind = "png"}

\* What a figure may depict: the one observation of this run, or the plane
\* it is simulated from.
FromThisRun(of) ==
    \/ of = env["interferometer"]
    \/ /\ of = env["plane"]
       /\ env["interferometer"] # Unbound => env["interferometer"].image.plane = of

Plotters == {"plane_plotter", "interferometer_plotter"}

\* C8: no statement of a run changes the value a name other than the plotter
\* variables was bound to, or binds that name again: the grid, the baseline
\* array, the simulator, the galaxy with its bulge and disk, the plane and the
\* observation keep their values through plotting, simulation and output; a
\* run that ends has bound every such name once and each plotter variable
\* twice.
C8_BoundOnce ==
    /\ [](status = "done" =>
            \A n \in Names : binds[n] = IF n \in Plotters THEN 2 ELSE 1)
    /\ [][runs' = runs =>
            \A n \in Names \ Plotters :
                binds[n] >= 1 => env'[n] = env[n] /\ binds'[n] = binds[n]]_vars

\* A run has ended with every entity bound and unchanged since.
C8_Witness ==
    /\ status = "done"
    /\ binds["plane"] = 1
    /\ binds["plane_plotter"] = 2
    /\ env["plane"] = MakePlane([galaxy |-> MakeGalaxy])
    /\ env["galaxy"].bulge.kind = "Sersic"
    /\ env["galaxy"].disk.kind = "Exponential"

\* ------------------------------------------------------------ order of the output

PngStatements == {"L144", "L145", "L146", "L149"}

FitsWritten == \A f \in FitsNames : OutFile(f) \in written

\* C10: the output is written in order and not as one atomic group: a run
\* that has written a plot has written the three .fits files, a run that has
\* written plane.json has written the three .fits files and the plots, and a
\* run that fails while plotting to .png leaves its three new .fits files on
\* disk and has written no plane.json.
C10_OutputOrder ==
    /\ PlotsWritten # {} => FitsWritten
    /\ OutFile("plane.json") \in written =>
          FitsWritten /\ \A f \in PngNames : OutFile(f) \in written
    /\ (status = "failed" /\ pc \in PngStatements) =>
          /\ FitsWritten
          /\ \A f \in FitsNames : fs[OutFile(f)] = FitsFile(ObservationData(f))
          /\ OutFile("plane.json") \notin written

\* A first run failed at a .png plot: its .fits files are on disk, no
\* plane.json is.
C10_Witness ==
    /\ status = "failed"
    /\ pc = "L145"
    /\ FitsWritten
    /\ ~Exists(fs, OutFile("plane.json"))

====
